---------------------------- MODULE Spec2Model ----------------------------
(***************************************************************************)
(* Dream diary bot: the per-user interview session engine of               *)
(* dream_bot/bot.py (DreamDiaryBot) and the persistence gateway of         *)
(* dream_bot/db.py (Database) it writes to.                                *)
(*                                                                         *)
(* Python dicts are functions whose DOMAIN is the set of keys present.     *)
(* Python lists are sequences.  A text message is a sequence of one-       *)
(* character tokens, so that str.strip, str.isdigit and int are computed   *)
(* rather than assumed.  A datetime is its UTC calendar day (an integer).  *)
(***************************************************************************)
EXTENDS Integers, Sequences, FiniteSets, TLC

VARIABLES
    sessions,   \* DreamDiaryBot.sessions: user id -> session dict
    entries,    \* Database.entries collection, in insertion order
    users,      \* Database.users collection: telegram_id -> user document
    today,      \* datetime.now(timezone.utc).date(), as a day number
    out,        \* the messages the last handler sent to the chat
    detours,    \* events handled so far that were not the interview's next step
    ntog,       \* toggle events handled since the user's last begin_entry
    was,        \* the phase the user's session was in when the last event arrived
    prev,       \* SpecToggle: the last event delivered and the sessions before it
    stats,      \* the snapshot the last get_stats call returned, and for whom
    queue,      \* SpecQueue: the updates received and not yet dispatched
    running,    \* SpecQueue: the handler coroutines started and not yet returned
    ref,        \* SpecQueue: the state after one handler call per update received
    accepted    \* SpecInterview: the answers accepted since the user's begin_entry

prog == <<sessions, entries, users, today, out>>
queueing == <<queue, running, ref>>
vars == <<sessions, entries, users, today, out, detours, ntog, was, prev, stats, queueing, accepted>>

---------------------------------------------------------------------------
(* Bounds of the exploration.                                              *)

\* events per run that are not the next step the bot asked for
MaxDetours == 1
\* entries stored per run; no event is delivered once the store holds this many
MaxEntries == 2
\* toggle events per session in SpecToggle
MaxToggles == 3
\* options of each picker that SpecToggle presses
MaxOptions == 2
\* entries saved per run of SpecStreak and of SpecStats
MaxSaves == 4
\* days that pass per run of SpecStreak
MaxDays == 4
\* updates received and waiting for the dispatcher in SpecQueue
MaxQueue == 2
\* entries one user saves per run of SpecWindow: one more than get_stats reads
MaxWindow == 31

---------------------------------------------------------------------------
(* content.py                                                              *)

\* ENTRY_QUESTIONS: the field keys in order (the prompt texts are left out)
ENTRY_QUESTIONS ==
    << "title", "key_event", "location_time", "characters", "symbols",
       "atmosphere", "mood", "senses", "narrative", "self_interpretation",
       "feelings_in_dream", "thoughts_after", "lucidity_score",
       "reality_checks", "rem_minutes", "deep_sleep_minutes",
       "total_sleep_minutes" >>

NO_RECALL_ENTRY_QUESTIONS ==
    << "rem_minutes", "deep_sleep_minutes", "total_sleep_minutes", "sleep_notes" >>

DREAM_TYPE_OPTIONS ==
    << "Mundane", "Lucid", "Nightmare", "Daydream", "Vivid", "Recurring",
       "False Awakening", "Prophetic" >>

SLEEP_QUALITY_OPTIONS == << "Great", "Good", "Fitful", "Restless", "Poor" >>

WAKE_FEELING_OPTIONS ==
    << "Refreshed", "Tired", "Concerned", "Inspired", "Curious", "Anxious" >>

\* faulty variant: the sleep minutes, asked on both plans, are missing
NUMERIC_QUESTION_KEYS_NoMinutes == { "lucidity_score", "reality_checks" }

\* faulty variant: rem_minutes is missing from the set
NUMERIC_QUESTION_KEYS_NoRem ==
    { "lucidity_score", "reality_checks", "deep_sleep_minutes", "total_sleep_minutes" }

\* bot.py
NUMERIC_QUESTION_KEYS ==
    { "lucidity_score", "reality_checks", "rem_minutes", "deep_sleep_minutes",
      "total_sleep_minutes" }

\* options_map of handle_picker_callback
options_map ==
    [ dream_types   |-> DREAM_TYPE_OPTIONS,
      sleep_quality |-> SLEEP_QUALITY_OPTIONS,
      wake_feeling  |-> WAKE_FEELING_OPTIONS ]

Categories == DOMAIN options_map

\* _update_streak looks back timedelta(days=60)
StreakWindowDays == 60

---------------------------------------------------------------------------
(* dict and list helpers                                                   *)

\* d[k] = v
Put(d, k, v) == [x \in (DOMAIN d) \cup {k} |-> IF x = k THEN v ELSE d[x]]

\* d.get(k, default)
Get(d, k, default) == IF k \in DOMAIN d THEN d[k] ELSE default

\* d.pop(k, None)
Pop(d, k) == [x \in (DOMAIN d) \ {k} |-> d[x]]

\* option in current
InList(x, list) == \E i \in 1..Len(list) : list[i] = x

\* list.remove(x): drops the first occurrence
RECURSIVE ListRemove(_, _)
ListRemove(list, x) ==
    IF list = <<>> THEN <<>>
    ELSE IF Head(list) = x THEN Tail(list)
    ELSE <<Head(list)>> \o ListRemove(Tail(list), x)

---------------------------------------------------------------------------
(* str methods used by on_text                                             *)

Whitespace == {" "}
DecimalDigits == {"0", "1", "2", "3", "4", "5", "6", "7", "8", "9"}
\* "sup2" stands for U+00B2 (superscript two): str.isdigit() is True for it
\* and int() raises ValueError on it
OtherDigits == {"sup2"}

RECURSIVE LStrip(_)
LStrip(t) ==
    IF t # <<>> /\ Head(t) \in Whitespace THEN LStrip(Tail(t)) ELSE t

RECURSIVE RStrip(_)
RStrip(t) ==
    IF t # <<>> /\ t[Len(t)] \in Whitespace
    THEN RStrip(SubSeq(t, 1, Len(t) - 1)) ELSE t

\* message.text.strip()
Strip(t) == RStrip(LStrip(t))

\* value.isdigit()
IsDigit(v) == v # <<>> /\ \A i \in 1..Len(v) : v[i] \in DecimalDigits \cup OtherDigits

\* int(value) raises ValueError
IntRaises(v) == \E i \in 1..Len(v) : v[i] \notin DecimalDigits

DigitValue(c) ==
    CASE c = "0" -> 0 [] c = "1" -> 1 [] c = "2" -> 2 [] c = "3" -> 3
      [] c = "4" -> 4 [] c = "5" -> 5 [] c = "6" -> 6 [] c = "7" -> 7
      [] c = "8" -> 8 [] c = "9" -> 9

\* int(value), for a value of decimal digits
RECURSIVE IntOf(_)
IntOf(v) ==
    IF v = <<>> THEN 0
    ELSE 10 * IntOf(SubSeq(v, 1, Len(v) - 1)) + DigitValue(v[Len(v)])

---------------------------------------------------------------------------
(* db.py: Database.  A handler's effect is a function of the "world"       *)
(* [sessions, entries, users, out, exc, llm]; exc is TRUE while an         *)
(* exception raised by a call is propagating to the dispatcher, llm is     *)
(* what will happen to the handler's call of the narrative generator.      *)

\* the write outcomes of one save_entry call
DbOutcomes == {"ok", "insert_fails", "streak_fails"}

\* faulty variant: streak is under $set, written at every call
ensure_user_ResetsStreak(us, telegram_id) == Put(us, telegram_id, [streak |-> 0])

\* ensure_user: the upsert sets streak 0 only on insert ($setOnInsert)
ensure_user(us, telegram_id) ==
    IF telegram_id \in DOMAIN us THEN us
    ELSE Put(us, telegram_id, [streak |-> 0])

\* the created_at days of the user's entries with created_at >= start
DaySet(es, telegram_id, start) ==
    { es[i].created_at : i \in { j \in 1..Len(es) :
        es[j].telegram_id = telegram_id /\ es[j].created_at >= start } }

\* faulty variant: the days with an entry are counted, gaps or not
StreakFrom_CountDays(day_set, cursor) == Cardinality({ d \in day_set : d <= cursor })

\* while cursor in day_set: streak += 1; cursor -= 1 day
RECURSIVE StreakFrom(_, _)
StreakFrom(day_set, cursor) ==
    IF cursor \in day_set THEN 1 + StreakFrom(day_set, cursor - 1) ELSE 0

\* faulty variant: the persisted streak is incremented instead of recomputed
update_streak_Increment(es, us, telegram_id, now) ==
    IF telegram_id \in DOMAIN us
    THEN [us EXCEPT ![telegram_id].streak = @ + 1]
    ELSE Put(us, telegram_id, [streak |-> 1])

\* _update_streak: recompute over the last 60 days and upsert the result
update_streak(es, us, telegram_id, now) ==
    LET day_set == DaySet(es, telegram_id, now - StreakWindowDays)
        streak  == StreakFrom(day_set, now)
    IN  IF telegram_id \in DOMAIN us
        THEN [us EXCEPT ![telegram_id].streak = streak]
        ELSE Put(us, telegram_id, [streak |-> streak])

\* the document save_entry inserts: {**entry, telegram_id, created_at, ...}
EntryDoc(entry, telegram_id, now) ==
    Put(Put(entry, "telegram_id", telegram_id), "created_at", now)

\* faulty variant: the document is inserted twice
save_entry_Twice(w, telegram_id, entry, now, db) ==
    IF db = "insert_fails" THEN [w EXCEPT !.exc = TRUE]
    ELSE LET doc == EntryDoc(entry, telegram_id, now)
             es  == Append(Append(w.entries, doc), doc)
         IN  IF db = "streak_fails"
             THEN [w EXCEPT !.entries = es, !.exc = TRUE]
             ELSE [w EXCEPT !.entries = es,
                            !.users = update_streak(es, w.users, telegram_id, now)]

\* save_entry: insert_one, then _update_streak; either write may raise
save_entry(w, telegram_id, entry, now, db) ==
    IF db = "insert_fails" THEN [w EXCEPT !.exc = TRUE]
    ELSE LET es == Append(w.entries, EntryDoc(entry, telegram_id, now))
         IN  IF db = "streak_fails"
             THEN [w EXCEPT !.entries = es, !.exc = TRUE]
             ELSE [w EXCEPT !.entries = es,
                            !.users = update_streak(es, w.users, telegram_id, now)]

\* get_stats reads get_recent_entries(telegram_id, limit=30)
RecentLimit == 30
\* top_symbols is the sorted list cut at [:5]
TopSymbols == 5

\* the first n elements of a list: list[:n]
Take(list, n) == SubSeq(list, 1, IF Len(list) < n THEN Len(list) ELSE n)

RECURSIVE Reverse(_)
Reverse(list) ==
    IF list = <<>> THEN <<>> ELSE Append(Reverse(Tail(list)), Head(list))

\* faulty variant: the limit is ignored
get_recent_entries_NoLimit(es, telegram_id, limit) ==
    Reverse(SelectSeq(es, LAMBDA e : e.telegram_id = telegram_id))

\* faulty variant: the entries of every user are read
get_recent_entries_AnyUser(es, telegram_id, limit) == Take(Reverse(es), limit)

\* get_recent_entries: the user's entries, created_at descending, cut at limit.
\* entries is in insertion order, so created_at descending is the reverse.
get_recent_entries(es, telegram_id, limit) ==
    Take(Reverse(SelectSeq(es, LAMBDA e : e.telegram_id = telegram_id)), limit)

\* str.lower() on ASCII letters
UpperCase == << "A", "B", "C", "D", "E", "F", "G", "H", "I", "J", "K", "L", "M",
               "N", "O", "P", "Q", "R", "S", "T", "U", "V", "W", "X", "Y", "Z" >>
LowerCase == << "a", "b", "c", "d", "e", "f", "g", "h", "i", "j", "k", "l", "m",
               "n", "o", "p", "q", "r", "s", "t", "u", "v", "w", "x", "y", "z" >>
LowerChar(c) ==
    IF \E i \in 1..Len(UpperCase) : UpperCase[i] = c
    THEN LowerCase[CHOOSE i \in 1..Len(UpperCase) : UpperCase[i] = c]
    ELSE c
Lower(t) == [i \in 1..Len(t) |-> LowerChar(t[i])]

\* str.split(","): the pieces between the commas, empty pieces kept
RECURSIVE SplitComma(_)
SplitComma(t) ==
    IF \A i \in 1..Len(t) : t[i] # "," THEN <<t>>
    ELSE LET i == CHOOSE k \in 1..Len(t) :
                    t[k] = "," /\ \A j \in 1..(k - 1) : t[j] # ","
         IN  <<SubSeq(t, 1, i - 1)>> \o SplitComma(SubSeq(t, i + 1, Len(t)))

\* s = raw.strip().lower()
Normalize(raw) == Lower(Strip(raw))

\* the symbols one entry counts: for raw in symbols.split(","):
\* s = raw.strip().lower(); if s: ...
RowTokens(row) ==
    LET raws == SplitComma(Get(row, "symbols", <<>>))
    IN  SelectSeq([k \in 1..Len(raws) |-> Normalize(raws[k])], LAMBDA sym : sym # <<>>)

\* the symbols counted, in the order of the two loops
RECURSIVE AllTokens(_)
AllTokens(rows) ==
    IF rows = <<>> THEN <<>> ELSE RowTokens(Head(rows)) \o AllTokens(Tail(rows))

\* recurring[s] = recurring.get(s, 0) + 1 for every symbol counted: a dict kept
\* in insertion order, as the list of <<symbol, count>> in first-seen order
CountSymbols(rows) ==
    LET tokens == AllTokens(rows)
        firsts == { i \in 1..Len(tokens) : \A j \in 1..(i - 1) : tokens[j] # tokens[i] }
        nth(n) == CHOOSE i \in firsts : Cardinality({ j \in firsts : j < i }) = n - 1
    IN  [n \in 1..Cardinality(firsts) |->
            <<tokens[nth(n)],
              Cardinality({ j \in 1..Len(tokens) : tokens[j] = tokens[nth(n)] })>>]

\* faulty variant: an item goes before the items of the same count
InsertByCount_Unstable(sorted, item) ==
    LET p == Cardinality({ i \in 1..Len(sorted) : sorted[i][2] > item[2] })
    IN  SubSeq(sorted, 1, p) \o <<item>> \o SubSeq(sorted, p + 1, Len(sorted))

\* one step of the stable sort: item goes after the items of count >= its own
InsertByCount(sorted, item) ==
    LET p == Cardinality({ i \in 1..Len(sorted) : sorted[i][2] >= item[2] })
    IN  SubSeq(sorted, 1, p) \o <<item>> \o SubSeq(sorted, p + 1, Len(sorted))

\* sorted(items, key=count, reverse=True): descending, equal counts in list order
RECURSIVE SortedByCount(_, _)
SortedByCount(sorted, items) ==
    IF items = <<>> THEN sorted
    ELSE SortedByCount(InsertByCount(sorted, Head(items)), Tail(items))

\* round(a / b, 0) of Python: to the nearest integer, a tie to the even one
RoundDiv(a, b) ==
    LET q == a \div b
        r == a % b
    IN  IF 2 * r < b THEN q
        ELSE IF 2 * r > b THEN q + 1
        ELSE IF q % 2 = 0 THEN q ELSE q + 1

RECURSIVE SumSeq(_)
SumSeq(list) == IF list = <<>> THEN 0 ELSE Head(list) + SumSeq(Tail(list))

\* float | None: None is the empty list, a float the list of its tenths
None == <<>>
Tenths(n) == <<n>>

\* faulty variant: the sum is divided by the number of rows of the subgroup
average_sleep_minutes_AllRows(rows) ==
    LET with   == SelectSeq(rows, LAMBDA row :
                      "total_sleep_minutes" \in DOMAIN row /\ row.total_sleep_minutes \in Int)
        values == [i \in 1..Len(with) |-> with[i].total_sleep_minutes]
    IN  IF rows = <<>> THEN None ELSE Tenths(RoundDiv(10 * SumSeq(values), Len(rows)))

\* average_sleep_minutes, in tenths of a minute; None when no row has an int
average_sleep_minutes(rows) ==
    LET with   == SelectSeq(rows, LAMBDA row :
                      "total_sleep_minutes" \in DOMAIN row /\ row.total_sleep_minutes \in Int)
        values == [i \in 1..Len(with) |-> with[i].total_sleep_minutes]
    IN  IF values = <<>> THEN None ELSE Tenths(RoundDiv(10 * SumSeq(values), Len(values)))

\* faulty variant: the no-recall rows are not filtered out
recalled_of_All(rows) == rows

\* recalled_entries = [e for e in entries_30 if not e.get("no_dream_recall", False)]
recalled_of(rows) == SelectSeq(rows, LAMBDA e : ~Get(e, "no_dream_recall", FALSE))

\* get_stats; lucid_ratio and the averages are in tenths (25.0 is 250)
get_stats(es, us, telegram_id) ==
    LET entries_30        == get_recent_entries(es, telegram_id, RecentLimit)
        recalled_entries  == recalled_of(entries_30)
        no_recall_entries == SelectSeq(entries_30, LAMBDA e : Get(e, "no_dream_recall", FALSE))
        lucid_count       == Len(SelectSeq(recalled_entries,
                                 LAMBDA e : InList("Lucid", Get(e, "dream_types", <<>>))))
        recurring         == CountSymbols(recalled_entries)
        top_symbols       == Take(SortedByCount(<<>>, recurring), TopSymbols)
    IN  [ entries_30          |-> Len(entries_30),
          recalled_30         |-> Len(recalled_entries),
          no_recall_30        |-> Len(no_recall_entries),
          lucid_30            |-> lucid_count,
          lucid_ratio         |-> IF recalled_entries # <<>>
                                  THEN RoundDiv(1000 * lucid_count, Len(recalled_entries))
                                  ELSE 0,
          avg_sleep_recalled  |-> average_sleep_minutes(recalled_entries),
          avg_sleep_no_recall |-> average_sleep_minutes(no_recall_entries),
          streak              |-> IF telegram_id \in DOMAIN us THEN us[telegram_id].streak ELSE 0,
          top_symbols         |-> top_symbols ]

---------------------------------------------------------------------------
(* llm.py: DreamLLM.  A call returns [text, raised]: the text returned, or   *)
(* raised = TRUE when an exception leaves the call.                         *)

\* what happens to one call of the generator: DreamLLM has no API key, the
\* request raises, the response has no content, or it has
LlmOutcomes == {"disabled", "fails", "empty", "generated"}

\* faulty variant: the exception of a failing request is not caught
chat_NoCatch(llm) ==
    IF llm = "disabled" THEN [text |-> "llm_disabled", raised |-> FALSE]
    ELSE IF llm = "fails" THEN [text |-> "", raised |-> TRUE]
    ELSE IF llm = "empty" THEN [text |-> "no_response_generated", raised |-> FALSE]
    ELSE [text |-> "generated", raised |-> FALSE]

\* _chat: the fixed texts when disabled or failing, else the response's content
chat(llm) ==
    IF llm = "disabled" THEN [text |-> "llm_disabled", raised |-> FALSE]
    ELSE IF llm = "fails" THEN [text |-> "ai_unavailable", raised |-> FALSE]
    ELSE IF llm = "empty" THEN [text |-> "no_response_generated", raised |-> FALSE]
    ELSE [text |-> "generated", raised |-> FALSE]

\* interpret_dream: builds the prompt with entry.get(...) and calls _chat
interpret_dream(llm, entry) == chat(llm)

---------------------------------------------------------------------------
(* bot.py: DreamDiaryBot                                                   *)

\* a message sent to the chat: what it is, and the numbers or picker in it
Msg(tag, cat, sel, n, of) == [tag |-> tag, cat |-> cat, sel |-> sel, n |-> n, of |-> of]
Text(tag) == Msg(tag, "", <<>>, 0, 0)
\* build_toggle_keyboard(category, options, selected)
Keyboard(tag, cat, sel) == Msg(tag, cat, sel, 0, 0)

Send(w, m) == [w EXCEPT !.out = Append(w.out, m)]

\* the session dict begin_entry stores
NewSession ==
    [ mode      |-> "entry",
      phase     |-> "dream_types",
      data      |-> [ dream_types     |-> <<>>,
                      sleep_quality   |-> <<>>,
                      wake_feeling    |-> <<>>,
                      no_dream_recall |-> FALSE ],
      q_index   |-> 0,
      questions |-> ENTRY_QUESTIONS ]

\* faulty variant: a session already there is kept (setdefault)
begin_entry_SetDefault(w, user_id) ==
    Send([w EXCEPT !.sessions =
            IF user_id \in DOMAIN w.sessions THEN w.sessions
            ELSE Put(w.sessions, user_id, NewSession)],
         Keyboard("step1", "dream_types", <<>>))

\* faulty variant: the session map is replaced by one holding this session
begin_entry_OneSession(w, user_id) ==
    Send([w EXCEPT !.sessions = Put(<<>>, user_id, NewSession)],
         Keyboard("step1", "dream_types", <<>>))

begin_entry(w, user_id) ==
    Send([w EXCEPT !.sessions = Put(w.sessions, user_id, NewSession)],
         Keyboard("step1", "dream_types", <<>>))

\* faulty variant: an option already selected stays selected (add, never remove)
ToggleList_AddOnly(current, option) ==
    IF InList(option, current) THEN current ELSE Append(current, option)

\* faulty variant: an option already selected is appended again, never removed
ToggleList_AppendOnly(current, option) == Append(current, option)

\* the toggle branch's list update: remove if present, else append
ToggleList(current, option) ==
    IF InList(option, current) THEN ListRemove(current, option)
    ELSE Append(current, option)

\* faulty variant: the session is popped before the entry is saved
finish_entry_PopFirst(w, user_id, now, db) ==
    IF user_id \notin DOMAIN w.sessions THEN w
    ELSE
    LET session == w.sessions[user_id]
        payload == Put(session.data, "entry_date", now)
        popped  == [w EXCEPT !.sessions = Pop(w.sessions, user_id)]
        saved   == save_entry(popped, user_id, payload, now, db)
        summary == Send(saved, Msg("dream_saved", "", <<>>, Len(saved.entries), 0))
        interpretation == interpret_dream(w.llm, payload)
    IN  IF saved.exc THEN saved
        ELSE IF payload.no_dream_recall
        THEN Send(saved, Msg("no_recall_saved", "", <<>>, Len(saved.entries), 0))
        ELSE IF interpretation.raised THEN [summary EXCEPT !.exc = TRUE]
        ELSE Send(summary, Msg("interpretation", interpretation.text, <<>>, 0, 0))

\* finish_entry: stamp entry_date, save, pop the session, send the summary
\* and, for a recalled dream, the generator's interpretation
finish_entry(w, user_id, now, db) ==
    IF user_id \notin DOMAIN w.sessions THEN w
    ELSE
    LET session == w.sessions[user_id]
        payload == Put(session.data, "entry_date", now)
        stamped == [w EXCEPT !.sessions[user_id].data = payload]
        saved   == save_entry(stamped, user_id, payload, now, db)
        popped  == [saved EXCEPT !.sessions = Pop(saved.sessions, user_id)]
        summary == Send(popped, Msg("dream_saved", "", <<>>, Len(saved.entries), 0))
        interpretation == interpret_dream(w.llm, payload)
    IN  IF saved.exc THEN saved
        ELSE IF payload.no_dream_recall
        THEN Send(popped, Msg("no_recall_saved", "", <<>>, Len(saved.entries), 0))
        ELSE IF interpretation.raised THEN [summary EXCEPT !.exc = TRUE]
        ELSE Send(summary, Msg("interpretation", interpretation.text, <<>>, 0, 0))

\* faulty variant: the cursor skips a question
NextIndex_Skip(idx) == idx + 2

\* the cursor after an accepted answer
NextIndex(idx) == idx + 1

\* active_questions
active_questions(session) == session.questions

\* faulty variant: the end of the plan is tested with idx > len(questions),
\* so that questions[idx] raises IndexError at the end
ask_next_question_PastEnd(w, user_id, now, db) ==
    IF user_id \notin DOMAIN w.sessions THEN w
    ELSE
    LET session   == w.sessions[user_id]
        questions == active_questions(session)
        idx       == session.q_index
    IN  IF idx > Len(questions) THEN finish_entry(w, user_id, now, db)
        ELSE IF idx = Len(questions) THEN [w EXCEPT !.exc = TRUE]
        ELSE Send(w, Msg("question", questions[idx + 1], <<>>, idx + 1, Len(questions)))

\* ask_next_question: finish at the end of the plan, else prompt "Q idx+1/n"
ask_next_question(w, user_id, now, db) ==
    IF user_id \notin DOMAIN w.sessions THEN w
    ELSE
    LET session   == w.sessions[user_id]
        questions == active_questions(session)
        idx       == session.q_index
    IN  IF idx >= Len(questions) THEN finish_entry(w, user_id, now, db)
        ELSE Send(w, Msg("question", questions[idx + 1], <<>>, idx + 1, Len(questions)))

\* faulty variant: the dream types toggled so far are kept
NoRecallSession_KeepsTypes(session) ==
    [session EXCEPT
        !.data = Put(session.data, "no_dream_recall", TRUE),
        !.questions = NO_RECALL_ENTRY_QUESTIONS,
        !.phase = "sleep_quality"]

\* faulty variant: the question plan is left as it was
NoRecallSession_KeepsPlan(session) ==
    [session EXCEPT
        !.data = Put(Put(session.data, "no_dream_recall", TRUE), "dream_types", <<>>),
        !.phase = "sleep_quality"]

\* the no_recall branch's writes to the session
NoRecallSession(session) ==
    [session EXCEPT
        !.data = Put(Put(session.data, "no_dream_recall", TRUE), "dream_types", <<>>),
        !.questions = NO_RECALL_ENTRY_QUESTIONS,
        !.phase = "sleep_quality"]

\* the done branch for wake_feeling, up to its reply: phase = "questions"
\* and the step 4 text
done_wake_feeling(w, user_id) ==
    Send([w EXCEPT !.sessions[user_id].phase = "questions"],
         Text(IF w.sessions[user_id].data.no_dream_recall THEN "step4_no_recall" ELSE "step4"))

\* faulty variant: a picker event for a user without a session opens one
handle_picker_callback_OpensSession(w, user_id, category, action, option, now, db) ==
    IF user_id \notin DOMAIN w.sessions
    THEN Send([w EXCEPT !.sessions = Put(w.sessions, user_id, NewSession)],
              Text("no_active_entry"))
    ELSE w

\* handle_picker_callback, data = "pick:<category>:<action>[:<option>]"
handle_picker_callback(w, user_id, category, action, option, now, db) ==
    IF user_id \notin DOMAIN w.sessions \/ w.sessions[user_id].mode # "entry"
    THEN Send(w, Text("no_active_entry"))
    ELSE
    LET session == w.sessions[user_id]
        payload == session.data
    IN
    IF action = "toggle" THEN
        LET current == ToggleList(Get(payload, category, <<>>), option)
        IN  Send([w EXCEPT !.sessions[user_id].data = Put(payload, category, current)],
                 Keyboard("markup", category, current))
    ELSE IF action = "no_recall" /\ category = "dream_types" THEN
        Send([w EXCEPT !.sessions[user_id] = NoRecallSession(session)],
             Keyboard("no_recall_step2", "sleep_quality", payload.sleep_quality))
    ELSE IF action = "done" THEN
        IF category = "dream_types" THEN
            Send([w EXCEPT !.sessions[user_id] =
                    [session EXCEPT
                        !.data = Put(payload, "no_dream_recall", FALSE),
                        !.questions = ENTRY_QUESTIONS,
                        !.phase = "sleep_quality"]],
                 Keyboard("step2", "sleep_quality", payload.sleep_quality))
        ELSE IF category = "sleep_quality" THEN
            Send([w EXCEPT !.sessions[user_id].phase = "wake_feeling"],
                 Keyboard("step3", "wake_feeling", payload.wake_feeling))
        ELSE IF category = "wake_feeling" THEN
            ask_next_question(done_wake_feeling(w, user_id), user_id, now, db)
        ELSE w
    ELSE w

\* on_callback after query.answer(): "menu:new_entry" or "pick:..."
route_callback(w, user_id, data, now, db) ==
    IF data[1] = "menu" THEN
        IF data[2] = "new_entry" THEN begin_entry(w, user_id) ELSE w
    ELSE IF data[1] = "pick" THEN
        handle_picker_callback(w, user_id, data[2], data[3], data[4], now, db)
    ELSE w

\* on_callback: ensure_user, query.answer(), then the route
on_callback(w, user_id, data, now, db) ==
    route_callback([w EXCEPT !.users = ensure_user(w.users, user_id)],
                   user_id, data, now, db)

\* faulty variant: the phase of the session is not looked at
InQuestions_AnyPhase(session) == session.mode = "entry"

\* on_text's test of the session: mode "entry" and phase "questions"
InQuestions(session) == session.mode = "entry" /\ session.phase = "questions"

\* on_text
on_text(w, user_id, text, now, db) ==
    LET w1 == [w EXCEPT !.users = ensure_user(w.users, user_id)]
    IN
    IF \/ user_id \notin DOMAIN w1.sessions
       \/ ~InQuestions(w1.sessions[user_id])
    THEN Send(w1, Text("use_menu"))
    ELSE
    LET session   == w1.sessions[user_id]
        questions == active_questions(session)
        idx       == session.q_index
    IN
    IF idx >= Len(questions) THEN finish_entry(w1, user_id, now, db)
    ELSE
    LET key     == questions[idx + 1]
        value   == Strip(text)
        numeric == key \in NUMERIC_QUESTION_KEYS
    IN
    IF numeric /\ ~IsDigit(value) THEN Send(w1, Text("please_number"))
    ELSE IF numeric /\ IntRaises(value) THEN [w1 EXCEPT !.exc = TRUE]
    ELSE
        ask_next_question(
            [w1 EXCEPT !.sessions[user_id] =
                [session EXCEPT
                    !.data = Put(session.data, key, IF numeric THEN IntOf(value) ELSE value),
                    !.q_index = NextIndex(idx)]],
            user_id, now, db)

\* faulty variant: the reply is sent and the session is left in place
cancel_KeepsSession(w, user_id) == Send(w, Text("canceled"))

\* cancel
cancel(w, user_id) ==
    Send([w EXCEPT !.sessions = Pop(w.sessions, user_id)], Text("canceled"))

---------------------------------------------------------------------------
(* The events the dispatcher delivers, one handler call per step.          *)

Users == {1}

\* "12", " 12 ", "x" (any non-numeric text), superscript two
Texts == { <<"1", "2">>, <<" ", "1", "2", " ">>, <<"x">>, <<"sup2">> }

\* the options pressed in Spec: one of each picker
SpecOptions ==
    [ dream_types |-> {"Lucid"}, sleep_quality |-> {"Great"}, wake_feeling |-> {"Refreshed"} ]

\* the first MaxOptions options of each picker, pressed in SpecToggle
ToggleOptions(c) ==
    { options_map[c][i] : i \in 1..(IF MaxOptions < Len(options_map[c])
                                    THEN MaxOptions ELSE Len(options_map[c])) }

\* the state a handler starts from; llm is the outcome of its generator call
WorldWith(llm) ==
    [sessions |-> sessions, entries |-> entries, users |-> users,
     out |-> <<>>, exc |-> FALSE, llm |-> llm]

\* for the handlers that never reach the generator
World == WorldWith("generated")

\* the handler returned w, or raised and the dispatcher logged the exception
Becomes(w) ==
    /\ sessions' = w.sessions
    /\ entries' = w.entries
    /\ users' = w.users
    /\ out' = IF w.exc THEN Append(w.out, Text("exception")) ELSE w.out
    /\ today' = today

HasSession(u) == u \in DOMAIN sessions
PhaseOf(u) == IF HasSession(u) THEN sessions[u].phase ELSE "none"

\* the text is a run of decimal digits between optional blanks
IsNumber(t) ==
    \E i \in 1..Len(t), j \in 1..Len(t) :
        /\ i <= j
        /\ \A k \in 1..Len(t) :
              IF i <= k /\ k <= j THEN t[k] \in DecimalDigits ELSE t[k] \in Whitespace

\* a write outcome other than "ok" is drawn only for a call whose write it fails
Wrote(w_ok, w, db) == db = "ok" \/ (w.exc /\ ~w_ok.exc)

Begin(u) ==
    Becomes(on_callback(World, u, <<"menu", "new_entry">>, today, "ok"))

Toggle(u, c, o) ==
    Becomes(on_callback(World, u, <<"pick", c, "toggle", o>>, today, "ok"))

NoRecall(u) ==
    Becomes(on_callback(World, u, <<"pick", "dream_types", "no_recall", "">>, today, "ok"))

DoneWith(u, c, db, llm) ==
    LET w    == on_callback(WorldWith(llm), u, <<"pick", c, "done", "">>, today, db)
        w_ok == on_callback(WorldWith(llm), u, <<"pick", c, "done", "">>, today, "ok")
    IN  Wrote(w_ok, w, db) /\ Becomes(w)

Done(u, c, db) == \E llm \in LlmOutcomes : DoneWith(u, c, db, llm)

AnswerWith(u, t, db, llm) ==
    LET w    == on_text(WorldWith(llm), u, t, today, db)
        w_ok == on_text(WorldWith(llm), u, t, today, "ok")
    IN  Wrote(w_ok, w, db) /\ Becomes(w)

Answer(u, t, db) == \E llm \in LlmOutcomes : AnswerWith(u, t, db, llm)

Cancel(u) == Becomes(cancel(World, u))

\* midnight UTC passes
Tick ==
    /\ today' = today + 1
    /\ out' = <<>>
    /\ UNCHANGED <<sessions, entries, users>>

\* the step is the one the bot asked for: begin with no session, the current
\* picker's done or shortcut, a number as the answer, and the write succeeds
OnScript(u, kind, c, t, db) ==
    /\ db = "ok"
    /\ CASE kind = "begin"     -> ~HasSession(u)
         [] kind = "done"      -> PhaseOf(u) = c
         [] kind = "no_recall" -> PhaseOf(u) = "dream_types"
         [] kind = "answer"    -> PhaseOf(u) = "questions" /\ IsNumber(t)
         [] OTHER              -> FALSE

Counted(u, kind, c, t, db) ==
    IF OnScript(u, kind, c, t, db) THEN detours' = detours
    ELSE detours < MaxDetours /\ detours' = detours + 1

\* ntog: <<user, category, option>> -> toggles handled since begin_entry
Toggles(u, c, o) == Get(ntog, <<u, c, o>>, 0)
TogglesOf(u) == { k \in DOMAIN ntog : k[1] = u }
RECURSIVE SumToggles(_)
SumToggles(ks) ==
    IF ks = {} THEN 0
    ELSE LET k == CHOOSE x \in ks : TRUE IN ntog[k] + SumToggles(ks \ {k})
ResetToggles(u) == ntog' = [k \in (DOMAIN ntog) \ TogglesOf(u) |-> ntog[k]]
CountToggle(u, c, o) ==
    ntog' = IF HasSession(u) THEN Put(ntog, <<u, c, o>>, Toggles(u, c, o) + 1) ELSE ntog

Arrived(u) == was' = PhaseOf(u)

Recorded(event) == prev' = [event |-> event, sessions |-> sessions]

\* no get_stats call has returned since the last write
NoStats == [of |-> 0]

\* events are delivered until the store holds MaxEntries entries
Open == Len(entries) < MaxEntries

Init ==
    /\ sessions = <<>>
    /\ entries = <<>>
    /\ users = <<>>
    /\ today = 0
    /\ out = <<>>
    /\ detours = 0
    /\ ntog = <<>>
    /\ was = "none"
    /\ prev = [event |-> <<>>, sessions |-> <<>>]
    /\ stats = NoStats
    /\ queue = <<>>
    /\ running = <<>>
    /\ ref = [sessions |-> <<>>, entries |-> <<>>, users |-> <<>>]
    /\ accepted = [u \in Users |-> 0]

EvBegin ==
    \E u \in Users :
        /\ Open
        /\ Counted(u, "begin", "", <<>>, "ok")
        /\ Begin(u)
        /\ ResetToggles(u)
        /\ Arrived(u)
        /\ UNCHANGED <<prev, stats, queueing, accepted>>

EvToggle ==
    \E u \in Users, c \in Categories : \E o \in SpecOptions[c] :
        /\ Open
        /\ Counted(u, "toggle", c, <<>>, "ok")
        /\ Toggle(u, c, o)
        /\ CountToggle(u, c, o)
        /\ Arrived(u)
        /\ UNCHANGED <<prev, stats, queueing, accepted>>

EvNoRecall ==
    \E u \in Users :
        /\ Open
        /\ Counted(u, "no_recall", "dream_types", <<>>, "ok")
        /\ NoRecall(u)
        /\ Arrived(u)
        /\ UNCHANGED <<prev, stats, queueing, accepted>>
        /\ UNCHANGED ntog

EvDone ==
    \E u \in Users, c \in Categories, db \in DbOutcomes :
        /\ Open
        /\ Counted(u, "done", c, <<>>, db)
        /\ Done(u, c, db)
        /\ Arrived(u)
        /\ UNCHANGED <<prev, stats, queueing, accepted>>
        /\ UNCHANGED ntog

EvAnswer ==
    \E u \in Users, t \in Texts, db \in DbOutcomes :
        /\ Open
        /\ Counted(u, "answer", "", t, db)
        /\ Answer(u, t, db)
        /\ Arrived(u)
        /\ UNCHANGED <<prev, stats, queueing, accepted>>
        /\ UNCHANGED ntog

EvCancel ==
    \E u \in Users :
        /\ Open
        /\ Counted(u, "cancel", "", <<>>, "ok")
        /\ Cancel(u)
        /\ Arrived(u)
        /\ UNCHANGED <<prev, stats, queueing, accepted>>
        /\ UNCHANGED ntog

EvTick ==
    /\ Open
    /\ Counted(0, "tick", "", <<>>, "ok")
    /\ Tick
    /\ was' = "none"
    /\ UNCHANGED <<prev, stats, queueing, accepted>>
    /\ UNCHANGED ntog

Next ==
    \/ EvBegin
    \/ EvToggle
    \/ EvNoRecall
    \/ EvDone
    \/ EvAnswer
    \/ EvCancel
    \/ EvTick

Spec == Init /\ [][Next]_vars

---------------------------------------------------------------------------
(* SpecToggle: a session's pickers, pressed in their own phase.            *)

TgBegin ==
    \E u \in Users :
        /\ Begin(u)
        /\ ResetToggles(u)
        /\ Arrived(u)
        /\ Recorded(<<"begin", u>>)
        /\ UNCHANGED <<stats, queueing, accepted>>
        /\ UNCHANGED detours

TgToggle ==
    \E u \in Users, c \in Categories : \E o \in ToggleOptions(c) :
        /\ PhaseOf(u) = c
        /\ SumToggles(TogglesOf(u)) < MaxToggles
        /\ Toggle(u, c, o)
        /\ CountToggle(u, c, o)
        /\ Arrived(u)
        /\ Recorded(<<"toggle", u, c, o>>)
        /\ UNCHANGED <<stats, queueing, accepted>>
        /\ UNCHANGED detours

TgDone ==
    \E u \in Users, c \in Categories :
        /\ PhaseOf(u) = c
        /\ Done(u, c, "ok")
        /\ Arrived(u)
        /\ Recorded(<<"done", u, c>>)
        /\ UNCHANGED <<stats, queueing, accepted>>
        /\ UNCHANGED <<detours, ntog>>

NextToggle == TgBegin \/ TgToggle \/ TgDone

SpecToggle == Init /\ [][NextToggle]_vars

---------------------------------------------------------------------------
(* SpecStreak: the Database driven directly over several days: entries are *)
(* saved for two users, the streak is recomputed, midnight passes and the  *)
(* statistics are read.  Every write succeeds.                             *)

DiaryUsers == {1, 2}

\* a draft as finish_entry hands it to save_entry
Draft(no_recall, types, fields) ==
    [k \in {"no_dream_recall", "dream_types", "sleep_quality", "wake_feeling"}
            \cup DOMAIN fields |->
        CASE k = "no_dream_recall" -> no_recall
          [] k = "dream_types"     -> types
          [] k \in {"sleep_quality", "wake_feeling"} -> <<>>
          [] OTHER                 -> fields[k]]

StreakDraft == Draft(FALSE, <<>>, [title |-> <<"x">>])

\* the Database after a call; a raising call leaves its earlier writes behind
Stores(w) ==
    /\ entries' = w.entries
    /\ users' = w.users
    /\ out' = IF w.exc THEN <<Text("exception")>> ELSE <<>>
    /\ stats' = NoStats
    /\ UNCHANGED <<sessions, today, detours, ntog, was, prev, queueing, accepted>>

\* db.save_entry(u, draft)
Save(u, draft, db) == Stores(save_entry(World, u, draft, today, db))

\* db._update_streak(u)
Recompute(u) ==
    Stores([World EXCEPT !.users = update_streak(entries, users, u, today)])

\* db.get_stats(u)
Stats(u) ==
    /\ stats' = [of |-> u, snapshot |-> get_stats(entries, users, u)]
    /\ out' = <<>>
    /\ UNCHANGED <<sessions, entries, users, today, detours, ntog, was, prev, queueing, accepted>>

DayPasses ==
    /\ Tick
    /\ stats' = NoStats
    /\ UNCHANGED <<detours, ntog, was, prev, queueing, accepted>>

SkSave ==
    \E u \in DiaryUsers :
        /\ Len(entries) < MaxSaves
        /\ Save(u, StreakDraft, "ok")

SkRecompute == \E u \in DiaryUsers : Recompute(u)

SkDayPasses == today < MaxDays /\ DayPasses

SkStats == \E u \in DiaryUsers : Stats(u)

NextStreak == SkSave \/ SkRecompute \/ SkDayPasses \/ SkStats

SpecStreak == Init /\ [][NextStreak]_vars

---------------------------------------------------------------------------
(* SpecStats: the Database driven directly on one day: drafts of several   *)
(* kinds are saved and the statistics are read.                            *)

\* the symbols answers "Fire, water", "fire", "Door" and " a, ,B,c"
FireWater == << "F", "i", "r", "e", ",", " ", "w", "a", "t", "e", "r" >>
JustFire == << "f", "i", "r", "e" >>
Door == << "D", "o", "o", "r" >>
Letters == << " ", "a", ",", " ", ",", "B", ",", "c" >>

\* recalled dreams, lucid or not, with their symbols; a no-recall night; and a
\* no-recall night whose draft holds a dream type and symbols all the same
\* (a stale toggle and a switch of plan leave such drafts)
LucidDraft == Draft(FALSE, <<"Lucid">>, [symbols |-> FireWater, total_sleep_minutes |-> 7])
StatDrafts ==
    { LucidDraft,
      Draft(FALSE, <<>>, [symbols |-> JustFire]),
      Draft(FALSE, <<"Vivid">>, [symbols |-> Door, total_sleep_minutes |-> 8]),
      Draft(FALSE, <<"Vivid", "Lucid">>, [symbols |-> Letters]),
      Draft(TRUE, <<>>, [total_sleep_minutes |-> 6]),
      Draft(TRUE, <<"Lucid">>, [symbols |-> JustFire]) }

\* user 1 saves drafts of every kind, user 2 the lucid one
SsSave ==
    \E u \in DiaryUsers, draft \in StatDrafts :
        /\ Len(entries) < MaxSaves
        /\ u = 2 => draft = LucidDraft
        /\ Save(u, draft, "ok")

SsStats == \E u \in DiaryUsers : Stats(u)

NextStats == SsSave \/ SsStats

SpecStats == Init /\ [][NextStats]_vars

---------------------------------------------------------------------------
(* SpecWindow: one user saves more entries than the statistics read.  Her   *)
(* first entry is of any kind, the later ones are lucid dreams.             *)

SwSave ==
    \E draft \in StatDrafts :
        /\ Len(entries) < MaxWindow
        /\ entries # <<>> => draft = LucidDraft
        /\ Save(1, draft, "ok")

SwStats == \E u \in DiaryUsers : Stats(u)

NextWindow == SwSave \/ SwStats

SpecWindow == Init /\ [][NextWindow]_vars

---------------------------------------------------------------------------
(* SpecDays: the diary over several days.  The user presses New entry,      *)
(* takes the no-recall shortcut, presses Done and sends texts, with or      *)
(* without a session; the statistics are read; midnight passes.             *)

\* the event is noted, and no statistics were read since this write
Noted(event) ==
    /\ prev' = [event |-> event, sessions |-> <<>>]
    /\ stats' = NoStats
    /\ UNCHANGED <<detours, ntog, was, queueing, accepted>>

DyBegin == \E u \in Users : Open /\ Begin(u) /\ Noted(<<"begin", u>>)

DyNoRecall ==
    \E u \in Users :
        Open /\ PhaseOf(u) = "dream_types" /\ NoRecall(u) /\ Noted(<<"no_recall", u>>)

DyDone ==
    \E u \in Users, c \in Categories :
        Open /\ PhaseOf(u) = c /\ DoneWith(u, c, "ok", "generated") /\ Noted(<<"done", u>>)

DyText ==
    \E u \in Users, db \in DbOutcomes :
        Open /\ AnswerWith(u, <<"1", "2">>, db, "generated") /\ Noted(<<"text", u>>)

DyStats == \E u \in Users : Stats(u)

DyDayPasses ==
    /\ today < MaxDays
    /\ Tick
    /\ Noted(<<"tick", 0>>)

NextDays == DyBegin \/ DyNoRecall \/ DyDone \/ DyText \/ DyStats \/ DyDayPasses

SpecDays == Init /\ [][NextDays]_vars

---------------------------------------------------------------------------
(* SpecQueue: updates arrive while a handler is still running.  The         *)
(* Application is built without concurrent_updates, so its update fetcher   *)
(* awaits the handler of one update before it takes the next from the      *)
(* queue.  A handler coroutine runs in segments, one per stretch of code    *)
(* between two awaits of the Telegram API; [ev, pc] is a coroutine with     *)
(* update ev suspended before segment pc.  Every write succeeds.            *)

\* the updates of user u: "New Dream Entry", the picker buttons, a text, /cancel
Updates(u) ==
    { <<"callback", u, <<"menu", "new_entry">>>>,
      <<"callback", u, <<"pick", "dream_types", "no_recall", "">>>>,
      <<"text", u, <<"1", "2">>>>,
      <<"cancel", u>> }
    \cup { <<"callback", u, <<"pick", c, "done", "">>>> : c \in Categories }
    \cup { <<"callback", u, <<"pick", c, "toggle", o>>>> :
              <<c, o>> \in { <<"sleep_quality", "Great">> } }

\* one whole handler call for update ev
Handle(w, ev) ==
    CASE ev[1] = "callback" -> on_callback(w, ev[2], ev[3], today, "ok")
      [] ev[1] = "text"     -> on_text(w, ev[2], ev[3], today, "ok")
      [] ev[1] = "cancel"   -> cancel(w, ev[2])

\* the segment of coroutine h run on w: the state after it, and the segment
\* the coroutine is suspended before (0: it has returned).
\* on_text and cancel change state before their first await only.
\* on_callback: 1 ensure_user, await query.answer(); 2 the route, which for
\* "done" with a session awaits edit_message_reply_markup first; 3 the done
\* branch of the category, which for wake_feeling awaits its reply; 4
\* ask_next_question.  The session the done branch writes to is the object
\* looked up in segment 2: once it is out of the map the writes are not seen.
Segment(w, h) ==
    LET ev == h.ev
        u  == ev[2]
    IN  IF ev[1] # "callback" THEN [w |-> Handle(w, ev), pc |-> 0]
        ELSE
        LET data == ev[3]
        IN  IF h.pc = 1
            THEN [w |-> [w EXCEPT !.users = ensure_user(w.users, u)], pc |-> 2]
            ELSE IF h.pc = 2
            THEN IF /\ data[1] = "pick"
                    /\ data[3] = "done"
                    /\ u \in DOMAIN w.sessions
                    /\ w.sessions[u].mode = "entry"
                 THEN [w |-> w, pc |-> 3]
                 ELSE [w |-> route_callback(w, u, data, today, "ok"), pc |-> 0]
            ELSE IF h.pc = 3
            THEN IF u \notin DOMAIN w.sessions THEN [w |-> w, pc |-> 0]
                 ELSE IF data[2] = "wake_feeling"
                 THEN [w |-> done_wake_feeling(w, u), pc |-> 4]
                 ELSE [w |-> route_callback(w, u, data, today, "ok"), pc |-> 0]
            ELSE [w |-> ask_next_question(w, u, today, "ok"), pc |-> 0]

\* faulty variant: concurrent_updates(True), an update is dispatched while
\* the handlers of earlier ones are suspended
CanDispatch_Concurrent == TRUE

\* the update fetcher takes the next update once the handler has returned
CanDispatch == running = <<>>

RefWorld ==
    [sessions |-> ref.sessions, entries |-> ref.entries, users |-> ref.users,
     out |-> <<>>, exc |-> FALSE, llm |-> "generated"]

RefPhase(u) == IF u \in DOMAIN ref.sessions THEN ref.sessions[u].phase ELSE "none"

\* the update is the step the bot asked for, had every update before it been
\* handled
Expected(ev) ==
    LET u == ev[2]
    IN  CASE ev[1] = "text"   -> RefPhase(u) = "questions"
          [] ev[1] = "cancel" -> FALSE
          [] OTHER ->
               CASE ev[3][1] = "menu"      -> RefPhase(u) = "none"
                 [] ev[3][3] = "done"      -> RefPhase(u) = ev[3][2]
                 [] ev[3][3] = "no_recall" -> RefPhase(u) = "dream_types"
                 [] OTHER                  -> FALSE

\* Telegram delivers an update
QReceive ==
    \E u \in Users : \E ev \in Updates(u) :
        /\ Len(queue) < MaxQueue
        /\ Len(ref.entries) < MaxEntries
        /\ IF Expected(ev) THEN detours' = detours
           ELSE detours < MaxDetours /\ detours' = detours + 1
        /\ queue' = Append(queue, ev)
        /\ LET w == Handle(RefWorld, ev)
           IN  ref' = [sessions |-> w.sessions, entries |-> w.entries, users |-> w.users]
        /\ UNCHANGED <<sessions, entries, users, today, out, ntog, was, prev, stats, running, accepted>>

\* the update fetcher calls the handler of the oldest update, which runs up
\* to its first await
QDispatch ==
    /\ queue # <<>>
    /\ CanDispatch
    /\ LET r == Segment(World, [ev |-> Head(queue), pc |-> 1])
       IN  /\ Becomes(r.w)
           /\ running' = IF r.pc = 0 THEN running
                         ELSE Append(running, [ev |-> Head(queue), pc |-> r.pc])
    /\ queue' = Tail(queue)
    /\ was' = PhaseOf(Head(queue)[2])
    /\ prev' = [event |-> Head(queue), sessions |-> sessions, waiting |-> Len(queue) - 1]
    /\ UNCHANGED <<detours, ntog, stats, ref, accepted>>

\* the event loop resumes a coroutine up to its next await
QRun ==
    \E i \in 1..Len(running) :
        LET r == Segment(World, running[i])
        IN  /\ Becomes(r.w)
            /\ running' =
                  IF r.pc = 0
                  THEN SubSeq(running, 1, i - 1) \o SubSeq(running, i + 1, Len(running))
                  ELSE [running EXCEPT ![i].pc = r.pc]
            /\ UNCHANGED <<detours, ntog, was, prev, stats, queue, ref, accepted>>

NextQueue == QReceive \/ QDispatch \/ QRun

SpecQueue == Init /\ [][NextQueue]_vars

---------------------------------------------------------------------------
(* SpecUsers: two users are interviewed on one day, their events            *)
(* interleaved in every order, one handler call per step.                  *)

\* the event is recorded; the other history variables are left alone
Handled(event) ==
    /\ Recorded(event)
    /\ UNCHANGED <<ntog, was, stats, queueing, accepted>>

UsBegin ==
    \E u \in DiaryUsers :
        Open /\ Counted(u, "begin", "", <<>>, "ok") /\ Begin(u) /\ Handled(<<"begin", u>>)

UsToggle ==
    \E u \in DiaryUsers, c \in Categories : \E o \in SpecOptions[c] :
        /\ Open
        /\ Counted(u, "toggle", c, <<>>, "ok")
        /\ Toggle(u, c, o)
        /\ Handled(<<"toggle", u>>)

UsNoRecall ==
    \E u \in DiaryUsers :
        /\ Open
        /\ Counted(u, "no_recall", "dream_types", <<>>, "ok")
        /\ NoRecall(u)
        /\ Handled(<<"no_recall", u>>)

UsDone ==
    \E u \in DiaryUsers, c \in Categories, db \in DbOutcomes :
        Open /\ Counted(u, "done", c, <<>>, db) /\ Done(u, c, db) /\ Handled(<<"done", u>>)

\* a number and a text that is none are typed
UsAnswer ==
    \E u \in DiaryUsers, t \in { <<"1", "2">>, <<"x">> }, db \in DbOutcomes :
        Open /\ Counted(u, "answer", "", t, db) /\ Answer(u, t, db) /\ Handled(<<"answer", u>>)

UsCancel ==
    \E u \in DiaryUsers :
        Open /\ Counted(u, "cancel", "", <<>>, "ok") /\ Cancel(u) /\ Handled(<<"cancel", u>>)

NextUsers == UsBegin \/ UsToggle \/ UsNoRecall \/ UsDone \/ UsAnswer \/ UsCancel

SpecUsers == Init /\ [][NextUsers]_vars

---------------------------------------------------------------------------
(* SpecInterview: a user who follows the interview.  She begins, presses    *)
(* Done on the picker displayed (or the shortcut on the first picker) and   *)
(* types; every write succeeds.  She may mistype any number of times, but   *)
(* does not stop pressing Done and typing numbers.                          *)

\* the history variables other than accepted are left alone
Followed == UNCHANGED <<detours, ntog, was, prev, stats, queueing>>

IvBegin ==
    \E u \in Users :
        /\ Open
        /\ ~HasSession(u)
        /\ Begin(u)
        /\ accepted' = [accepted EXCEPT ![u] = 0]
        /\ Followed

IvNoRecall ==
    \E u \in Users :
        /\ PhaseOf(u) = "dream_types"
        /\ NoRecall(u)
        /\ UNCHANGED accepted
        /\ Followed

\* the done event of the current phase
IvDone ==
    \E u \in Users, c \in Categories :
        /\ PhaseOf(u) = c
        /\ DoneWith(u, c, "ok", "generated")
        /\ UNCHANGED accepted
        /\ Followed

\* a valid answer: a number answers every question
IvAnswer ==
    \E u \in Users, t \in Texts :
        /\ PhaseOf(u) = "questions"
        /\ IsNumber(t)
        /\ \E llm \in {"generated", "fails"} : AnswerWith(u, t, "ok", llm)
        /\ accepted' = [accepted EXCEPT ![u] = @ + 1]
        /\ Followed

\* a text that is no number, typed at a question that asks for one
IvMistype ==
    \E u \in Users, t \in Texts :
        /\ PhaseOf(u) = "questions"
        /\ ~IsNumber(t)
        /\ sessions[u].q_index < Len(sessions[u].questions)
        /\ sessions[u].questions[sessions[u].q_index + 1] \in NUMERIC_QUESTION_KEYS
        /\ AnswerWith(u, t, "ok", "generated")
        /\ UNCHANGED accepted
        /\ Followed

NextInterview == IvBegin \/ IvNoRecall \/ IvDone \/ IvAnswer \/ IvMistype

SpecInterview ==
    Init /\ [][NextInterview]_vars /\ WF_vars(IvDone) /\ WF_vars(IvAnswer)

---------------------------------------------------------------------------
(* Claims.  The field lists below are the claims' own, written out apart    *)
(* from the program's constants.                                           *)

PickerFields == {"dream_types", "sleep_quality", "wake_feeling"}

NumericFields ==
    { "lucidity_score", "reality_checks", "rem_minutes", "deep_sleep_minutes",
      "total_sleep_minutes" }

FullPlan ==
    << "title", "key_event", "location_time", "characters", "symbols",
       "atmosphere", "mood", "senses", "narrative", "self_interpretation",
       "feelings_in_dream", "thoughts_after", "lucidity_score",
       "reality_checks", "rem_minutes", "deep_sleep_minutes",
       "total_sleep_minutes" >>

ReducedPlan ==
    << "rem_minutes", "deep_sleep_minutes", "total_sleep_minutes", "sleep_notes" >>

QuestionFields ==
    { FullPlan[i] : i \in 1..Len(FullPlan) } \cup { ReducedPlan[i] : i \in 1..Len(ReducedPlan) }

\* C1: a category_done event whose category differs from the session's current
\* phase is a no-op: it leaves phase, question plan, no_recall flag, cursor and
\* draft (the whole session) unchanged.
C1_DoneMismatchIsNoOp ==
    [][ \A u \in Users, c \in PickerFields, db \in DbOutcomes :
            (HasSession(u) /\ PhaseOf(u) # c /\ Done(u, c, db))
                => (HasSession(u)' /\ sessions'[u] = sessions[u]) ]_vars

\* C2: a toggle event whose category differs from the session's current phase
\* (any toggle while answering included) leaves every draft field unchanged.
C2_ToggleMismatchIsNoOp ==
    [][ \A u \in Users, c \in PickerFields :
          \A o \in SpecOptions[c] :
            (HasSession(u) /\ PhaseOf(u) # c /\ Toggle(u, c, o))
                => (HasSession(u)' /\ sessions'[u].data = sessions[u].data) ]_vars

\* C8: toggle parity law.  After n toggle events on an option, pressed in its
\* category's phase of a fresh session, the option is in the category's list
\* iff n is odd, whatever was pressed on the other options.
C8_ToggleParity ==
    \A u \in DOMAIN sessions : \A c \in PickerFields : \A o \in ToggleOptions(c) :
        InList(o, sessions[u].data[c]) <=> (Toggles(u, c, o) % 2 = 1)

\* three presses of one option leave it selected, a second option pressed twice
\* is out again, and a third never pressed is out
C8_Witness ==
    /\ HasSession(1)
    /\ \E o1 \in ToggleOptions("sleep_quality"), o2 \in ToggleOptions("dream_types") :
          /\ Toggles(1, "sleep_quality", o1) = 3
          /\ InList(o1, sessions[1].data.sleep_quality)
          /\ \E o3 \in ToggleOptions("sleep_quality") :
                o3 # o1 /\ ~InList(o3, sessions[1].data.sleep_quality)
          /\ Toggles(1, "dream_types", o2) = 0

\* the field the cursor of session s is at, and whether it is past the plan
KeyAt(s) == s.questions[s.q_index + 1]
InPlan(s) == s.q_index < Len(s.questions)
AtEnd(u) ==
    /\ HasSession(u)
    /\ sessions[u].phase = "questions"
    /\ sessions[u].q_index >= Len(sessions[u].questions)

\* text t is an answer the question at u's cursor accepts
Accepts(u, t) ==
    /\ PhaseOf(u) = "questions"
    /\ InPlan(sessions[u])
    /\ KeyAt(sessions[u]) \in NumericFields => IsNumber(t)

\* the value an accepted answer t stores under key
Stored(key, t) == IF key \in NumericFields THEN IntOf(Strip(t)) ELSE Strip(t)

\* the answers of draft d and e agree, but for those under the keys in except
SameAnswers(d, e, except) ==
    \A k \in QuestionFields \ except :
        /\ (k \in DOMAIN d) <=> (k \in DOMAIN e)
        /\ k \in DOMAIN d => d[k] = e[k]

\* one step of a session that stays: nothing answered, or a fresh session, or
\* the field at the cursor answered and the cursor moved on by one
SessionStep(s, s2) ==
    \/ /\ s2.q_index = s.q_index
       /\ SameAnswers(s.data, s2.data, {})
    \/ /\ s2.q_index = 0
       /\ (DOMAIN s2.data) \cap QuestionFields = {}
    \/ /\ s.phase = "questions"
       /\ InPlan(s)
       /\ s2.q_index = s.q_index + 1
       /\ s2.questions = s.questions
       /\ KeyAt(s) \in DOMAIN s2.data
       /\ SameAnswers(s.data, s2.data, {KeyAt(s)})

\* the document stored last holds draft d for user u
SavedLast(es, d, u) ==
    /\ es # <<>>
    /\ LET doc == es[Len(es)]
       IN  /\ doc.telegram_id = u
           /\ \A k \in (DOMAIN d) \ {"entry_date"} : k \in DOMAIN doc /\ doc[k] = d[k]
           /\ "entry_date" \in DOMAIN doc

\* C3: answers are recorded in the order of the active plan.  A session's
\* cursor starts at 0 and changes only when an answer is accepted; the accepted
\* answer is stored under the field at the cursor (so the k-th accepted answer
\* under plan position k) and moves the cursor on by exactly one; no other step
\* writes or drops an answer.
C3_AnswersFollowPlan ==
    [][ \A u \in Users :
          /\ (~HasSession(u) /\ HasSession(u)')
                => /\ sessions'[u].q_index = 0
                   /\ (DOMAIN sessions'[u].data) \cap QuestionFields = {}
          /\ (HasSession(u) /\ HasSession(u)') => SessionStep(sessions[u], sessions'[u])
          /\ \A t \in Texts, db \in DbOutcomes :
                (Accepts(u, t) /\ Answer(u, t, db)) =>
                    LET s   == sessions[u]
                        key == KeyAt(s)
                    IN  IF HasSession(u)'
                        THEN /\ sessions'[u].q_index = s.q_index + 1
                             /\ sessions'[u].data[key] = Stored(key, t)
                        ELSE /\ s.q_index + 1 = Len(s.questions)
                             /\ SavedLast(entries', Put(s.data, key, Stored(key, t)), u) ]_vars

\* four answers in, the cursor is at the fifth question of the full plan
C3_Witness ==
    /\ HasSession(1)
    /\ was = "questions"
    /\ sessions[1].q_index = 4
    /\ sessions[1].questions = FullPlan
    /\ \A i \in 1..4 : FullPlan[i] \in DOMAIN sessions[1].data
    /\ \A i \in 5..Len(FullPlan) : FullPlan[i] \notin DOMAIN sessions[1].data
    /\ out = <<Msg("question", "symbols", <<>>, 5, 17)>>

\* C4: when the question at the cursor is a numeric field and the text is not
\* a non-negative integer, the answer is rejected: the session (cursor, draft,
\* phase, plan) is unchanged and nothing is stored.
C4_NumericRejected ==
    [][ \A u \in Users, t \in Texts, db \in DbOutcomes :
            ( /\ PhaseOf(u) = "questions"
              /\ InPlan(sessions[u])
              /\ KeyAt(sessions[u]) \in NumericFields
              /\ ~IsNumber(t)
              /\ Answer(u, t, db) )
                => (sessions' = sessions /\ entries' = entries) ]_vars

\* "Please enter a number." was the reply to a text sent at a numeric question
C4_Witness ==
    /\ HasSession(1)
    /\ was = "questions"
    /\ InPlan(sessions[1])
    /\ KeyAt(sessions[1]) = "rem_minutes"
    /\ out = <<Text("please_number")>>

\* the final accepted answer ends the interview: one entry more, holding the
\* draft, and no session
Completes(u, t) ==
    /\ ~HasSession(u)'
    /\ Len(entries') = Len(entries) + 1
    /\ SavedLast(entries', Put(sessions[u].data, KeyAt(sessions[u]), Stored(KeyAt(sessions[u]), t)), u)

LastQuestion(u) == sessions[u].q_index + 1 = Len(sessions[u].questions)

\* C5 (as claimed): when the accepted answer moves the cursor to the end of the
\* plan, the interview completes: one entry is saved with the draft and no
\* session exists afterwards.
C5_FinalAnswerCompletes ==
    [][ \A u \in Users, t \in Texts, db \in DbOutcomes :
            (Accepts(u, t) /\ LastQuestion(u) /\ Answer(u, t, db)) => Completes(u, t) ]_vars

\* C5 (amended): when the accepted answer moves the cursor to the end of the
\* plan and save_entry succeeds, exactly one entry is stored, it holds the
\* draft, and no session exists for the user afterwards.
C5_FinalAnswerCompletesWhenSaved ==
    [][ \A u \in Users, t \in Texts :
            (Accepts(u, t) /\ LastQuestion(u) /\ Answer(u, t, "ok")) => Completes(u, t) ]_vars

\* the 17th answer of the full plan was saved as the first entry
C5_Witness ==
    /\ ~HasSession(1)
    /\ was = "questions"
    /\ Len(entries) = 1
    /\ \A i \in 1..Len(FullPlan) : FullPlan[i] \in DOMAIN entries[1]
    /\ entries[1].total_sleep_minutes = 12
    /\ Len(out) = 2
    /\ out[1] = Msg("dream_saved", "", <<>>, 1, 0)
    /\ out[2].tag = "interpretation"

\* the completion step raised: the session is still there, at the end of its
\* plan, with the draft it had
Kept(u) ==
    /\ HasSession(u)'
    /\ sessions'[u].phase = "questions"
    /\ sessions'[u].questions = sessions[u].questions
    /\ sessions'[u].q_index >= Len(sessions'[u].questions)
    /\ \A k \in (DOMAIN sessions[u].data) \ {"entry_date"} :
          k \in DOMAIN sessions'[u].data /\ sessions'[u].data[k] = sessions[u].data[k]

\* C6: the session is destroyed only after the write has succeeded.  If
\* save_entry fails (in the insert or in the streak update) the session still
\* exists with its draft, the final answer included, and the cursor at the end
\* of the plan; a later text event of that user calls save_entry again.
C6_FailedSaveKeepsSession ==
    [][ \A u \in Users :
          /\ \A t \in Texts, db \in DbOutcomes \ {"ok"} :
                (HasSession(u) /\ Answer(u, t, db)) =>
                    /\ Kept(u)
                    /\ InPlan(sessions[u]) =>
                          /\ sessions'[u].q_index = Len(sessions'[u].questions)
                          /\ sessions'[u].data[KeyAt(sessions[u])] = Stored(KeyAt(sessions[u]), t)
          /\ \A db \in DbOutcomes \ {"ok"} :
                (HasSession(u) /\ Done(u, "wake_feeling", db)) => Kept(u)
          /\ \A t \in Texts :
                (AtEnd(u) /\ Answer(u, t, "ok")) =>
                    /\ ~HasSession(u)'
                    /\ Len(entries') = Len(entries) + 1
                    /\ SavedLast(entries', sessions[u].data, u) ]_vars

\* the insert failed on the last answer: nothing stored, session at the end
C6_Witness ==
    /\ HasSession(1)
    /\ was = "questions"
    /\ entries = <<>>
    /\ sessions[1].q_index = Len(sessions[1].questions)
    /\ \A i \in 1..Len(FullPlan) : FullPlan[i] \in DOMAIN sessions[1].data
    /\ "entry_date" \in DOMAIN sessions[1].data
    /\ out = <<Text("exception")>>

\* C7: the no-recall shortcut, after any toggles in selecting_dream_types,
\* yields no_dream_recall = true, an empty dream_types list, the reduced plan
\* and phase selecting_sleep_quality.
C7_NoRecallShortcut ==
    [][ \A u \in Users :
            (PhaseOf(u) = "dream_types" /\ NoRecall(u)) =>
                /\ HasSession(u)'
                /\ sessions'[u].data.no_dream_recall = TRUE
                /\ sessions'[u].data.dream_types = <<>>
                /\ sessions'[u].questions = ReducedPlan
                /\ sessions'[u].phase = "sleep_quality" ]_vars

\* "Lucid" was toggled on, then the shortcut was pressed
C7_Witness ==
    /\ HasSession(1)
    /\ was = "dream_types"
    /\ Toggles(1, "dream_types", "Lucid") = 1
    /\ sessions[1].data.dream_types = <<>>
    /\ out = <<Keyboard("no_recall_step2", "sleep_quality", <<>>)>>

\* C9: begin_entry from any state leaves the user with one session: phase
\* selecting_dream_types, the three multi-select lists empty, no_recall false,
\* the full plan, cursor 0, no answers; it stores no entry.
C9_BeginResets ==
    [][ \A u \in Users :
            Begin(u) =>
                /\ HasSession(u)'
                /\ sessions'[u].phase = "dream_types"
                /\ \A c \in PickerFields : sessions'[u].data[c] = <<>>
                /\ sessions'[u].data.no_dream_recall = FALSE
                /\ DOMAIN sessions'[u].data = PickerFields \cup {"no_dream_recall"}
                /\ sessions'[u].questions = FullPlan
                /\ sessions'[u].q_index = 0
                /\ entries' = entries ]_vars

\* begin_entry arrived in the middle of the questions, with an entry stored
C9_Witness ==
    /\ HasSession(1)
    /\ was = "questions"
    /\ Len(entries) = 1
    /\ out = <<Keyboard("step1", "dream_types", <<>>)>>

\* C10: cancel removes the user's session and persists nothing: the stored
\* entries and the users' streaks are unchanged.
C10_CancelDiscards ==
    [][ \A u \in Users :
            Cancel(u) => (~HasSession(u)' /\ entries' = entries /\ users' = users) ]_vars

\* cancel arrived in the middle of the questions, with an entry and a streak stored
C10_Witness ==
    /\ ~HasSession(1)
    /\ was = "questions"
    /\ Len(entries) = 1
    /\ users[1].streak = 1
    /\ out = <<Text("canceled")>>

\* C11: a text message is an answer only while the user has a session in
\* phase answering_questions.  With no session, or a session in one of the
\* three selecting phases, a text message leaves the session map (so every
\* draft and cursor) unchanged and stores no entry.
C11_TextOutsideAnswering ==
    [][ \A u \in Users, t \in Texts, db \in DbOutcomes :
            (PhaseOf(u) # "questions" /\ Answer(u, t, db))
                => (sessions' = sessions /\ entries' = entries) ]_vars

\* a text arrived while the sleep quality picker was open and got the menu hint
C11_Witness ==
    /\ HasSession(1)
    /\ was = "sleep_quality"
    /\ sessions[1].phase = "sleep_quality"
    /\ sessions[1].q_index = 0
    /\ out = <<Text("use_menu")>>

\* the text the generator hands back for each thing that can happen to its call
FixedText(llm) ==
    CASE llm = "disabled" -> "llm_disabled"
      [] llm = "fails"    -> "ai_unavailable"
      [] llm = "empty"    -> "no_response_generated"
      [] OTHER            -> "generated"

\* the handler's last two messages are the summary of the saved dream and the
\* generator's text, and no exception was logged
EndsWithNarrative(msgs, llm, n) ==
    /\ Len(msgs) >= 2
    /\ msgs[Len(msgs) - 1] = Msg("dream_saved", "", <<>>, n, 0)
    /\ msgs[Len(msgs)] = Msg("interpretation", FixedText(llm), <<>>, 0, 0)
    /\ \A i \in 1..Len(msgs) : msgs[i].tag # "exception"

HasNarrative(msgs) == \E i \in 1..Len(msgs) : msgs[i].tag = "interpretation"

\* the step stored one more entry, a recalled dream
StoredRecalled ==
    /\ Len(entries') = Len(entries) + 1
    /\ entries'[Len(entries')].no_dream_recall = FALSE

\* C13: narrative generation is decoupled from completion.  Whether the
\* generator is disabled, fails or answers, a handler that saves a recalled
\* dream ends with the entry stored, the session gone, the summary sent and
\* then the generator's text (the fixed placeholder or fallback when it is
\* disabled or fails), without an exception; and a narrative is only ever sent
\* by a step that stored the entry and destroyed the session.
C13_NarrativeDecoupled ==
    [][ \A u \in Users, llm \in LlmOutcomes :
          /\ \A t \in Texts :
                /\ (AnswerWith(u, t, "ok", llm) /\ StoredRecalled)
                      => (~HasSession(u)' /\ EndsWithNarrative(out', llm, Len(entries')))
                /\ \A db \in DbOutcomes :
                      (AnswerWith(u, t, db, llm) /\ HasNarrative(out'))
                          => (~HasSession(u)' /\ Len(entries') = Len(entries) + 1)
          /\ \A c \in PickerFields :
                /\ (DoneWith(u, c, "ok", llm) /\ StoredRecalled)
                      => (~HasSession(u)' /\ EndsWithNarrative(out', llm, Len(entries')))
                /\ \A db \in DbOutcomes :
                      (DoneWith(u, c, db, llm) /\ HasNarrative(out'))
                          => (~HasSession(u)' /\ Len(entries') = Len(entries) + 1) ]_vars

\* the generator's request failed after the 17th answer: the dream is stored,
\* the session is gone and the fallback text was sent after the summary
C13_Witness ==
    /\ ~HasSession(1)
    /\ was = "questions"
    /\ Len(entries) = 1
    /\ entries[1].no_dream_recall = FALSE
    /\ out = << Msg("dream_saved", "", <<>>, 1, 0),
                Msg("interpretation", "ai_unavailable", <<>>, 0, 0) >>

\* the last message sent is the prompt of question n of plan
AsksQuestion(msgs, plan, n) ==
    /\ msgs # <<>>
    /\ msgs[Len(msgs)] = Msg("question", plan[n], <<>>, n, Len(plan))

\* C12: whenever a session enters answering_questions, on done for
\* wake_feeling, its cursor is 0 and the prompt emitted is the first question
\* of the active plan, whatever events led to the transition.
C12_EntersAtFirstQuestion ==
    [][ \A u \in Users, db \in DbOutcomes :
            (HasSession(u) /\ PhaseOf(u) # "questions" /\ Done(u, "wake_feeling", db))
                => /\ HasSession(u)'
                   /\ sessions'[u].phase = "questions"
                   /\ sessions'[u].q_index = 0
                   /\ AsksQuestion(out', sessions'[u].questions, 1) ]_vars

\* the options selected in a picker list
Selected(list) == { list[i] : i \in 1..Len(list) }

\* the step delivers toggle(u, c, o) right after the same event
SecondDelivery(u, c, o) ==
    /\ prev.event = <<"toggle", u, c, o>>
    /\ HasSession(u)
    /\ Toggle(u, c, o)

\* C15 (as claimed): delivering the same toggle(user, category, option) twice
\* in a row yields the same draft set as delivering it once.
C15_ToggleTwiceAsOnce ==
    [][ \A u \in Users, c \in PickerFields :
          \A o \in ToggleOptions(c) :
            SecondDelivery(u, c, o)
                => Selected(sessions'[u].data[c]) = Selected(sessions[u].data[c]) ]_vars

\* C15 (amended): delivering the same toggle(user, category, option) twice in
\* a row yields the draft sets as they were before the first delivery: the
\* second delivery undoes the first, and no other field changes.
C15_ToggleTwiceUndoes ==
    [][ \A u \in Users, c \in PickerFields :
          \A o \in ToggleOptions(c) :
            SecondDelivery(u, c, o)
                => /\ u \in DOMAIN prev.sessions
                   /\ Selected(sessions'[u].data[c]) = Selected(prev.sessions[u].data[c])
                   /\ (o \in Selected(sessions[u].data[c]))
                         # (o \in Selected(prev.sessions[u].data[c]))
                   /\ \A k \in (DOMAIN sessions[u].data) \ {c} :
                         sessions'[u].data[k] = prev.sessions[u].data[k]
                   /\ DOMAIN sessions'[u].data = DOMAIN prev.sessions[u].data ]_vars

\* "Great" was selected, a second option pressed, and then pressed again:
\* "Great" alone is selected, as before the two presses
C15_Witness ==
    /\ HasSession(1)
    /\ was = "sleep_quality"
    /\ prev.event = <<"toggle", 1, "sleep_quality", "Good">>
    /\ Toggles(1, "sleep_quality", "Good") = 2
    /\ Toggles(1, "sleep_quality", "Great") = 1
    /\ sessions[1].data.sleep_quality = <<"Great">>
    /\ prev.sessions[1].data.sleep_quality = <<"Great", "Good">>

\* the distinct creation days of u's entries, all of them and those of the
\* look-back window that ends at day
DaysOf(es, u) ==
    { es[i].created_at : i \in { j \in 1..Len(es) : es[j].telegram_id = u } }
WindowDays(es, u, day) == { d \in DaysOf(es, u) : d >= day - StreakWindowDays }

\* the length of the longest run of consecutive days of days that ends at day
RunLength(days, day) ==
    CHOOSE n \in 0..Cardinality(days) :
        /\ \A k \in 0..(n - 1) : (day - k) \in days
        /\ (day - n) \notin days

\* C16: streak recompute returns the length of the longest run of consecutive
\* calendar days ending at today that all belong to the distinct creation
\* days of the user's entries in the look-back window: 0 when today has no
\* entry (no entries at all included), and 3 for entry days {D, D-1, D-2, D-4}
\* with today D.
C16_StreakIsRunLength ==
    [][ \A u \in DiaryUsers :
            Recompute(u) =>
                LET days == WindowDays(entries, u, today)
                IN  /\ u \in DOMAIN users'
                    /\ users'[u].streak = RunLength(days, today)
                    /\ today \notin days => users'[u].streak = 0
                    /\ days = {today, today - 1, today - 2, today - 4}
                          => users'[u].streak = 3 ]_vars

\* user 1 has entries on days 0, 2, 3, 4, today is day 4 and the streak is 3
C16_Witness ==
    /\ today = 4
    /\ DaysOf(entries, 1) = {0, 2, 3, 4}
    /\ 1 \in DOMAIN users
    /\ users[1].streak = 3
    /\ out = <<>>

\* C17: the streak is recomputed in full on every entry save.  Immediately
\* after a successful save_entry the user's persisted streak equals the
\* recompute result over the user's stored entries, the one just saved
\* included, whatever streak was persisted before.
C17_SaveRecomputesStreak ==
    [][ \A u \in DiaryUsers :
            Save(u, StreakDraft, "ok") =>
                /\ Len(entries') = Len(entries) + 1
                /\ entries'[Len(entries')].telegram_id = u
                /\ entries'[Len(entries')].created_at = today
                /\ u \in DOMAIN users'
                /\ users'[u].streak = RunLength(WindowDays(entries', u, today), today) ]_vars

\* user 1 saved on days 0 and 1 (streak 2), skipped day 2 and saved on day 3:
\* the streak is back to 1
C17_Witness ==
    /\ today = 3
    /\ Len(entries) = 3
    /\ \A i \in 1..3 : entries[i].telegram_id = 1
    /\ entries[1].created_at = 0 /\ entries[2].created_at = 1 /\ entries[3].created_at = 3
    /\ 1 \in DOMAIN users
    /\ users[1].streak = 1
    /\ out = <<>>
    /\ stats = NoStats

Mine(es, u) == { i \in 1..Len(es) : es[i].telegram_id = u }
InWindow(es, u) ==
    { i \in Mine(es, u) : Cardinality({ j \in Mine(es, u) : j > i }) < RecentLimit }
RecalledIn(es, u) == { i \in InWindow(es, u) : es[i].no_dream_recall = FALSE }

\* the k-th comma-separated token of entry i's symbols field, trimmed and
\* lower-cased
TokensOf(e) == SplitComma(IF "symbols" \in DOMAIN e THEN e.symbols ELSE <<>>)
TokenAt(es, i, k) == Normalize(TokensOf(es[i])[k])

\* where symbol sym occurs: <<entry, token>> positions in u's recalled window
Occurrences(es, u, sym) ==
    { p \in UNION { { <<i, k>> : k \in 1..Len(TokensOf(es[i])) } : i \in RecalledIn(es, u) } :
        TokenAt(es, p[1], p[2]) = sym }

SymbolsOf(es, u) ==
    { TokenAt(es, i, k) : <<i, k>> \in
        UNION { { <<i, k>> : k \in 1..Len(TokensOf(es[i])) } : i \in RecalledIn(es, u) } }
        \ { <<>> }

\* position p is met before q when the window is read newest entry first
MetBefore(p, q) == p[1] > q[1] \/ (p[1] = q[1] /\ p[2] < q[2])

FirstMet(es, u, sym) ==
    CHOOSE p \in Occurrences(es, u, sym) :
        \A q \in Occurrences(es, u, sym) : q = p \/ MetBefore(p, q)

\* sym ranks before other: more occurrences, or as many and met first
RanksBefore(es, u, sym, other) ==
    LET n == Cardinality(Occurrences(es, u, sym))
        m == Cardinality(Occurrences(es, u, other))
    IN  n > m \/ (n = m /\ MetBefore(FirstMet(es, u, sym), FirstMet(es, u, other)))

\* the symbols fields of u's recalled window, newest first
RECURSIVE SymbolFields(_, _, _)
SymbolFields(es, u, i) ==
    IF i = 0 THEN <<>>
    ELSE IF i \in RecalledIn(es, u)
         THEN <<es[i].symbols>> \o SymbolFields(es, u, i - 1)
         ELSE SymbolFields(es, u, i - 1)

\* C19: symbol frequency counts, over the recalled entries of the window
\* only, each comma-separated token of the symbols field after trimming and
\* lower-casing, empty tokens dropped, and returns at most 5 (symbol, count)
\* pairs in descending count order, ties in first-seen order; for the symbols
\* "Fire, water", "fire", "Door" the result is [(fire,2),(water,1),(door,1)].
C19_TopSymbols ==
    \A u \in DiaryUsers :
        stats.of = u =>
            LET top  == stats.snapshot.top_symbols
                syms == SymbolsOf(entries, u)
            IN  /\ Len(top) = IF Cardinality(syms) < 5 THEN Cardinality(syms) ELSE 5
                /\ \A i \in 1..Len(top) :
                      /\ top[i][1] \in syms
                      /\ top[i][2] = Cardinality(Occurrences(entries, u, top[i][1]))
                      /\ \A j \in (i + 1)..Len(top) :
                            RanksBefore(entries, u, top[i][1], top[j][1])
                      /\ \A sym \in syms \ { top[j][1] : j \in 1..Len(top) } :
                            RanksBefore(entries, u, top[i][1], sym)
                /\ SymbolFields(entries, u, Len(entries)) = <<FireWater, JustFire, Door>>
                      => top = << <<JustFire, 2>>,
                                  << <<"w", "a", "t", "e", "r">>, 1 >>,
                                  << <<"d", "o", "o", "r">>, 1 >> >>

\* user 1's window reads "Fire, water", "fire", "Door", newest first, and the
\* snapshot lists fire 2, water 1, door 1
C19_Witness ==
    /\ stats.of = 1
    /\ SymbolFields(entries, 1, Len(entries)) = <<FireWater, JustFire, Door>>
    /\ stats.snapshot.top_symbols =
          << <<JustFire, 2>>, << <<"w", "a", "t", "e", "r">>, 1 >>,
             << <<"d", "o", "o", "r">>, 1 >> >>

\* the recalled entries of u's window that are tagged "Lucid"
LucidIn(es, u) ==
    { i \in RecalledIn(es, u) : \E k \in 1..Len(es[i].dream_types) : es[i].dream_types[k] = "Lucid" }

\* C20: lucid ratio is 100 * (recalled entries tagged "Lucid") / (recalled
\* entries) rounded to one decimal, and 0 when the window has no recalled
\* entry; no-recall entries count neither above nor below the line (1 lucid
\* of 4 recalled gives 25.0).  The ratio is held in tenths: 25.0 is 250.
C20_LucidRatio ==
    \A u \in DiaryUsers :
        stats.of = u =>
            LET ratio    == stats.snapshot.lucid_ratio
                recalled == Cardinality(RecalledIn(entries, u))
                lucid    == Cardinality(LucidIn(entries, u))
                diff     == ratio * recalled - 1000 * lucid
            IN  /\ recalled = 0 => ratio = 0
                /\ recalled > 0 => (2 * diff <= recalled /\ -2 * diff <= recalled)
                /\ (recalled = 4 /\ lucid = 1) => ratio = 250

\* 1 lucid of 4 recalled entries: 25.0
C20_Witness ==
    /\ stats.of = 1
    /\ Cardinality(RecalledIn(entries, 1)) = 4
    /\ Cardinality(LucidIn(entries, 1)) = 1
    /\ stats.snapshot.lucid_ratio = 250

\* the state after one whole handler call per update of q, in order
RECURSIVE Replay(_, _)
Replay(w, q) ==
    IF q = <<>> THEN w ELSE Replay(Handle(w, Head(q)), Tail(q))

\* the state is the one that one whole handler call per update dispatched so
\* far gives: with the pending updates handled in order it is the state that
\* handling every received update in receipt order gives
InReceiptOrder ==
    LET w == Replay(World, queue)
    IN  /\ w.sessions = ref.sessions
        /\ w.entries = ref.entries

\* a step changes a cursor by one answer at most, and stores one entry at
\* most, whose draft it removes
OneAnswerPerStep ==
    /\ Len(entries') <= Len(entries) + 1
    /\ Len(entries') > Len(entries) =>
          \E u \in Users : HasSession(u) /\ ~HasSession(u)'
    /\ \A u \in Users :
          (HasSession(u) /\ HasSession(u)') =>
              \/ sessions'[u].q_index = sessions[u].q_index
              \/ sessions'[u].q_index = sessions[u].q_index + 1
              \/ sessions'[u].q_index = 0

\* C14: events of one user are applied atomically and in receipt order.  With
\* updates of the user delivered while earlier ones are waiting or being
\* handled, whenever no handler is running the state equals the result of
\* handling the updates one after the other in receipt order: no update to
\* the cursor or the draft is lost, the cursor moves by one per accepted
\* answer and no draft is saved twice.
C14_AppliedInReceiptOrder ==
    /\ [](running = <<>> => InReceiptOrder)
    /\ [][OneAnswerPerStep]_vars

\* two texts were waiting together; the handler of the first has returned with
\* the cursor at 1, the second is still waiting
C14_Witness ==
    /\ running = <<>>
    /\ queue = << <<"text", 1, <<"1", "2">>>> >>
    /\ prev.event = <<"text", 1, <<"1", "2">>>>
    /\ prev.waiting = 1
    /\ HasSession(1)
    /\ sessions[1].q_index = 1
    /\ ref.sessions[1].q_index = 2

\* the no-recall entries of u's window, and the entries of a subgroup that
\* hold total_sleep_minutes
NoRecallIn(es, u) == InWindow(es, u) \ RecalledIn(es, u)
WithSleep(es, group) == { i \in group : "total_sleep_minutes" \in DOMAIN es[i] }

RECURSIVE SleepSum(_, _)
SleepSum(es, group) ==
    IF group = {} THEN 0
    ELSE LET i == CHOOSE j \in group : TRUE
         IN  es[i].total_sleep_minutes + SleepSum(es, group \ {i})

\* avg (in tenths) is the mean of total_sleep_minutes over the entries of the
\* subgroup that hold it, to the nearest tenth
IsMeanOf(avg, es, group) ==
    /\ avg # None
    /\ LET n    == Cardinality(WithSleep(es, group))
           diff == avg[1] * n - 10 * SleepSum(es, WithSleep(es, group))
       IN  2 * diff <= n /\ -2 * diff <= n

AverageOf(avg, es, group) ==
    IF WithSleep(es, group) = {} THEN avg = None ELSE IsMeanOf(avg, es, group)

C22_EmptySnapshot ==
    \A u \in DiaryUsers :
        (stats.of = u /\ Mine(entries, u) = {}) =>
            /\ out = <<>>
            /\ stats.snapshot =
                  [ entries_30          |-> 0,
                    recalled_30         |-> 0,
                    no_recall_30        |-> 0,
                    lucid_30            |-> 0,
                    lucid_ratio         |-> 0,
                    avg_sleep_recalled  |-> None,
                    avg_sleep_no_recall |-> None,
                    streak              |-> 0,
                    top_symbols         |-> <<>> ]

\* the statistics of user 2, who has a user record and no entry, are read
\* on a day on which user 1 has an entry and a streak
C22_Witness ==
    /\ stats.of = 2
    /\ 2 \in DOMAIN users
    /\ Mine(entries, 2) = {}
    /\ Mine(entries, 1) # {}
    /\ users[1].streak = 1
    /\ stats.snapshot.entries_30 = 0

\* the step is the handling of an event of user a
EventOf(a) == prev'.event # <<>> /\ prev'.event[2] = a

\* the entries of user b, in the order stored
EntriesOf(es, b) == SelectSeq(es, LAMBDA e : e.telegram_id = b)

\* the step leaves b's session, b's entries and b's user record as they were
Untouched(b) ==
    /\ HasSession(b)' <=> HasSession(b)
    /\ HasSession(b) => sessions'[b] = sessions[b]
    /\ EntriesOf(entries', b) = EntriesOf(entries, b)
    /\ (b \in DOMAIN users)' <=> b \in DOMAIN users
    /\ b \in DOMAIN users => users'[b] = users[b]

\* C23: users are independent.  The handling of any event of user A (begin,
\* toggle, no-recall, done, answer, cancel, completion) leaves user B's
\* session, B's stored entries and B's persisted streak unchanged, in every
\* interleaving of the events of A and B.
C23_UsersIndependent ==
    [][\A a \in DiaryUsers, b \in DiaryUsers : (a # b /\ EventOf(a)) => Untouched(b)]_vars

\* user 1 has just completed an interview and holds a streak, while user 2
\* is in the middle of hers, one answer given
C23_Witness ==
    /\ ~HasSession(1)
    /\ Len(EntriesOf(entries, 1)) = 1
    /\ users[1].streak = 1
    /\ out # <<>>
    /\ out[1].tag \in {"dream_saved", "no_recall_saved"}
    /\ HasSession(2)
    /\ sessions[2].phase = "questions"
    /\ sessions[2].q_index = 1
    /\ EntriesOf(entries, 2) = <<>>

\* the step destroys a session by completion: the session is gone and the
\* handler sent a summary of the saved entry
DestroyedByCompletion ==
    /\ \E u \in Users : HasSession(u) /\ ~HasSession(u)'
    /\ out' # <<>>
    /\ out'[1].tag \in {"dream_saved", "no_recall_saved"}

\* C24: each completed interview creates exactly one stored entry, also when
\* the completion step fails part-way and is retried.  A step stores one
\* entry when it destroys a session by completion and none otherwise, so
\* that a completion at which save_entry raised has stored nothing and the
\* number of stored entries equals the number of sessions destroyed by
\* completion.
C24_OneEntryPerCompletion ==
    [][Len(entries') = Len(entries) + (IF DestroyedByCompletion THEN 1 ELSE 0)]_vars

\* C25: in every reachable session state the question plan agrees with the
\* no_recall flag: the plan is the reduced no-recall plan iff no_dream_recall
\* is true and the full plan iff it is false, whatever the order of begin,
\* shortcut and done events.
C25_PlanAgreesWithFlag ==
    \A u \in Users :
        HasSession(u) =>
            /\ sessions[u].questions = ReducedPlan <=> sessions[u].data.no_dream_recall = TRUE
            /\ sessions[u].questions = FullPlan <=> sessions[u].data.no_dream_recall = FALSE

\* the shortcut was pressed on the first picker, still displayed, after the
\* title had been answered
C25_Witness ==
    /\ HasSession(1)
    /\ was = "questions"
    /\ sessions[1].phase = "sleep_quality"
    /\ "title" \in DOMAIN sessions[1].data
    /\ sessions[1].data.no_dream_recall = TRUE
    /\ sessions[1].questions = ReducedPlan

\* C26: every stored entry with no_dream_recall = true has an empty
\* dream_types list, for every sequence of toggle, shortcut, done and answer
\* events that leads to its completion.
C26_NoRecallHasNoTypes ==
    \A i \in 1..Len(entries) :
        entries[i].no_dream_recall = TRUE => entries[i].dream_types = <<>>

\* the plan of a stored entry: the reduced one when it is a no-recall night
PlanOf(e) == IF e.no_dream_recall THEN ReducedPlan ELSE FullPlan

\* C27: an entry is saved only when every question of the plan active at
\* completion has an accepted answer.  Every stored entry holds a value for
\* each field key of its plan: the 17 keys of the full plan when
\* no_dream_recall is false, the 4 of the reduced plan when it is true.
C27_StoredEntryAnswersPlan ==
    \A i \in 1..Len(entries) :
        \A k \in 1..Len(PlanOf(entries[i])) : PlanOf(entries[i])[k] \in DOMAIN entries[i]

\* the fields of the session's plan that its draft holds
Answered(s) == { k \in 1..Len(s.questions) : s.questions[k] \in DOMAIN s.data }

\* C28: in every reachable session state the cursor is a valid position of
\* the active plan: 0 <= active_question_index <= the length of the plan, and
\* it equals the number of plan fields already present in the draft.
C28_CursorCountsAnswers ==
    \A u \in Users :
        HasSession(u) =>
            /\ 0 <= sessions[u].q_index
            /\ sessions[u].q_index <= Len(sessions[u].questions)
            /\ sessions[u].q_index = Cardinality(Answered(sessions[u]))

\* value v is a non-negative integer: the number that some typed run of
\* decimal digits denotes.  The values are compared as printed, a text and a
\* number being different kinds of value.
IsTypedNumber(v) ==
    \E t \in Texts :
        /\ IsNumber(t)
        /\ IntOf(Strip(t)) >= 0
        /\ ToString(v) = ToString(IntOf(Strip(t)))

\* the values a draft or an entry holds under the numeric field keys
NumbersOf(d) == { d[k] : k \in NumericFields \cap DOMAIN d }

\* C29: every value held in a draft, and hence in a stored entry, under a
\* numeric field key (lucidity_score, reality_checks, rem_minutes,
\* deep_sleep_minutes, total_sleep_minutes) is a non-negative integer,
\* whichever plan was active when it was written.
C29_NumericFieldsHoldNumbers ==
    /\ \A u \in Users :
          HasSession(u) => \A v \in NumbersOf(sessions[u].data) : IsTypedNumber(v)
    /\ \A i \in 1..Len(entries) : \A v \in NumbersOf(entries[i]) : IsTypedNumber(v)

\* a no-recall night and a recalled dream are stored, with the numbers of
\* the reduced and of the full plan
C29_Witness ==
    /\ Len(entries) = 2
    /\ \E i, j \in 1..2 :
          /\ entries[i].no_dream_recall = TRUE
          /\ "sleep_notes" \in DOMAIN entries[i]
          /\ entries[i].sleep_notes = <<"1", "2">>
          /\ NumbersOf(entries[i]) = {12}
          /\ entries[j].no_dream_recall = FALSE
          /\ "title" \in DOMAIN entries[j]
          /\ entries[j].title = <<"1", "2">>
          /\ NumericFields \subseteq DOMAIN entries[j]
          /\ NumbersOf(entries[j]) = {12}

\* the step is the handling of a picker event of user u
PickerEvent(u) ==
    \/ NoRecall(u)
    \/ \E c \in Categories : \E o \in SpecOptions[c] : Toggle(u, c, o)
    \/ \E c \in Categories, db \in DbOutcomes : Done(u, c, db)

\* C30: a toggle, shortcut or done event for a user who has no session
\* creates no session and stores no entry: the session map and the stored
\* entries are unchanged and the user gets the "no active entry" reply.
C30_PickerWithoutSession ==
    [][ \A u \in Users :
            (~HasSession(u) /\ PickerEvent(u)) =>
                /\ sessions' = sessions
                /\ entries' = entries
                /\ out' = <<Text("no_active_entry")>> ]_vars

\* an interview was completed and a button of one of its pickers was
\* pressed afterwards
C30_Witness ==
    /\ ~HasSession(1)
    /\ was = "none"
    /\ Len(entries) = 1
    /\ detours = 1
    /\ out = <<Text("no_active_entry")>>

\* the step removes u's session and stores her draft, n answers accepted
CompletesAfter(u, n) ==
    /\ Len(entries') = Len(entries) + 1
    /\ entries'[Len(entries')].telegram_id = u
    /\ accepted'[u] = n

\* C31: the interview terminates.  From begin_entry, if the user keeps
\* sending the done event of the current phase and then valid answers, and
\* persistence succeeds, the session eventually reaches completion and is
\* removed, after exactly 17 accepted answers on the full plan or exactly 4
\* on the no-recall plan.
C31_InterviewTerminates ==
    /\ \A u \in Users : HasSession(u) ~> ~HasSession(u)
    /\ [][ \A u \in Users :
              (HasSession(u) /\ ~HasSession(u)') =>
                  CompletesAfter(u, IF sessions[u].data.no_dream_recall THEN 4 ELSE 17) ]_vars

\* a no-recall night and then a recalled dream were completed
C31_Witness ==
    /\ ~HasSession(1)
    /\ Len(entries) = 2
    /\ entries[1].no_dream_recall = TRUE
    /\ entries[2].no_dream_recall = FALSE
    /\ accepted[1] = 17
    /\ out # <<>>
    /\ out[1].tag = "dream_saved"

\* the positions in the store of u's k most recent entries
Latest(es, u, k) ==
    { i \in Mine(es, u) : Cardinality({ j \in Mine(es, u) : j > i }) < k }

\* the position of the n-th newest of the entries at positions ps
NthNewest(ps, n) == CHOOSE i \in ps : Cardinality({ j \in ps : j > i }) = n - 1

\* C32: the counts of a statistics snapshot are consistent.  The window
\* holds the user's most recent entries, newest first, and at most 30 of
\* them; recalled and no-recall entries partition it (recalled_30 +
\* no_recall_30 = entries_30 <= 30); and lucid_30 <= recalled_30.
C32_CountsConsistent ==
    \A u \in DiaryUsers :
        stats.of = u =>
            LET window == get_recent_entries(entries, u, 30)
                latest == Latest(entries, u, 30)
                snap   == stats.snapshot
            IN  /\ Len(window) = Cardinality(latest)
                /\ \A n \in 1..Len(window) : window[n] = entries[NthNewest(latest, n)]
                /\ snap.entries_30 = Cardinality(latest)
                /\ snap.entries_30 <= 30
                /\ snap.recalled_30 =
                      Cardinality({ i \in latest : entries[i].no_dream_recall = FALSE })
                /\ snap.no_recall_30 =
                      Cardinality({ i \in latest : entries[i].no_dream_recall = TRUE })
                /\ snap.recalled_30 + snap.no_recall_30 = snap.entries_30
                /\ snap.lucid_30 <= snap.recalled_30

\* 31 entries, the oldest a no-recall night: the window holds the 30 lucid
\* dreams after it
C32_Witness ==
    /\ stats.of = 1
    /\ Cardinality(Mine(entries, 1)) = 31
    /\ entries[1].no_dream_recall = TRUE
    /\ stats.snapshot.entries_30 = 30
    /\ stats.snapshot.no_recall_30 = 0
    /\ stats.snapshot.recalled_30 = 30
    /\ stats.snapshot.lucid_30 = 30

\* the step stores an entry of u
SavesFor(u) ==
    /\ Len(entries') = Len(entries) + 1
    /\ entries'[Len(entries')].telegram_id = u

\* C33: the persisted streak changes only at entry save.  A step that
\* creates the user's record without saving sets streak to 0, a step that
\* saves no entry of the user leaves the streak of an existing record as it
\* is (callbacks and texts run ensure_user, get_stats reads), so between two
\* saves the persisted streak is constant.
C33_StreakChangesAtSave ==
    [][\A u \in Users :
          ~SavesFor(u) =>
              IF u \in DOMAIN users
              THEN u \in DOMAIN users' /\ users'[u].streak = users[u].streak
              ELSE u \in DOMAIN users' => users'[u].streak = 0]_vars

\* two days after her only entry the user pressed New entry and read her
\* statistics: the streak written at the save is still there, where a
\* recomputation would give 0
C33_Witness ==
    /\ Len(entries) = 1
    /\ entries[1].telegram_id = 1
    /\ entries[1].created_at = 0
    /\ today = 2
    /\ prev.event = <<"begin", 1>>
    /\ HasSession(1)
    /\ stats.of = 1
    /\ stats.snapshot.streak = 1
    /\ users[1].streak = 1
    /\ update_streak(entries, users, 1, today)[1].streak = 0

=============================================================================
